---- MODULE Spec2Model ----
(***************************************************************************)
(* Model of internal/validators/status/validator.go: the status validator  *)
(* of merge-gatekeeper.  CreateValidator builds a statusValidator from a   *)
(* client and options; Validate fetches the combined status and the check  *)
(* runs of a ref, normalizes them into ghaStatus records and decides       *)
(* whether every job other than the validator's own job has succeeded.     *)
(***************************************************************************)
EXTENDS Integers, Sequences, FiniteSets, TLC

(* ---------------------------------------------------------------------- *)
(* Constants of the source                                                *)
(* ---------------------------------------------------------------------- *)
successState == "success"
errorState == "error"
pendingState == "pending"
checkRunCompletedStatus == "completed"
checkRunNeutralConclusion == "neutral"
checkRunSuccessConclusion == "success"
ErrInvalidCombinedStatusResponse == "github combined status response is invalid"
ErrInvalidCheckRunResponse == "github checkRun response is invalid"

\* A nil pointer / nil interface / nil error.
NIL == "<nil>"

(* ---------------------------------------------------------------------- *)
(* Bounds of the model                                                    *)
(* ---------------------------------------------------------------------- *)
\* Largest number of entries (combined statuses plus check runs) one
\* Validate call receives from upstream.
MaxJobs == 2
\* Largest number of options passed to CreateValidator.
MaxOpts == 4
\* Largest number of entries one call receives when several calls interleave.
MaxConcJobs == 2
\* Number of Validate calls that may be in progress on one validator.
NumCalls == 2

Calls == 1..NumCalls

(* ---------------------------------------------------------------------- *)
(* Inputs                                                                 *)
(* ---------------------------------------------------------------------- *)
SelfJob == "gatekeeper"
JobNames == {SelfJob, "lint", "test"}

\* github.RepoStatus: Context and State are *string.
CombinedEntries ==
    [Context : JobNames \cup {NIL},
     State : {NIL, "success", "error", "pending", "failure"}]

\* github.CheckRun: Name, Status and Conclusion are *string.
CheckRunEntries ==
    [Name : JobNames \cup {NIL},
     Status : {NIL, "completed", "in_progress"},
     Conclusion : {NIL, "success", "neutral", "failure"}]

\* The smaller alphabet used when several calls interleave.
ConcCombinedEntries ==
    {[Context |-> "lint", State |-> "success"],
     [Context |-> SelfJob, State |-> "error"]}

ConcCheckRunEntries ==
    {[Name |-> "test", Status |-> "completed", Conclusion |-> "success"],
     [Name |-> "lint", Status |-> "in_progress", Conclusion |-> NIL]}

\* Errors: a sentinel (or the client's error) plus the two %v operands.
NilErr == [wraps |-> NIL, a |-> NIL, b |-> NIL]
Errorf(sentinel, x, y) == [wraps |-> sentinel, a |-> x, b |-> y]

\* Errors a client call may return (transport failure, cancellation).
FetchErrors ==
    {Errorf("context canceled", NIL, NIL),
     Errorf("transport failure", NIL, NIL)}

\* Option values: each option assigns one string field of the validator.
OptionFields == {"repo", "owner", "ref", "selfJobName"}
Options == [field : OptionFields, value : {"", "x"}]
Clients == {NIL, "client"}

(* ---------------------------------------------------------------------- *)
(* statusValidator and its construction                                   *)
(* ---------------------------------------------------------------------- *)
\* The nil validator returned when construction fails.
NilValidator ==
    [isNil |-> TRUE, repo |-> "", owner |-> "", ref |-> "",
     selfJobName |-> "", client |-> NIL]

\* &statusValidator{client: c}
NewValidator(c) ==
    [isNil |-> FALSE, repo |-> "", owner |-> "", ref |-> "",
     selfJobName |-> "", client |-> c]

\* opt(sv) for one option.
ApplyOption(v, opt) == [v EXCEPT ![opt.field] = opt.value]

RECURSIVE ApplyOptions(_, _)
ApplyOptions(v, opts) ==
    IF opts = <<>> THEN v
    ELSE ApplyOptions(ApplyOption(v, Head(opts)), Tail(opts))

\* append(errs, e) when cond holds.
AppendIf(errs, cond, e) == IF cond THEN Append(errs, e) ELSE errs

validateFields_first(v) ==
    IF Len(v.repo) = 0 THEN <<"repository name is empty">>
    ELSE IF Len(v.owner) = 0 THEN <<"repository owner is empty">>
    ELSE IF Len(v.ref) = 0 THEN <<"reference of repository is empty">>
    ELSE IF Len(v.selfJobName) = 0 THEN <<"self job name is empty">>
    ELSE IF v.client = NIL THEN <<"github client is empty">>
    ELSE <<>>

\* The multierror.Errors collected; the empty sequence stands for a nil error.
validateFields(v) ==
    LET e1 == AppendIf(<<>>, v.repo = "", "repository name is empty")
        e2 == AppendIf(e1, v.owner = "", "repository owner is empty")
        e3 == AppendIf(e2, v.ref = "", "reference of repository is empty")
        e4 == AppendIf(e3, v.selfJobName = "", "self job name is empty")
        e5 == AppendIf(e4, v.client = NIL, "github client is empty")
    IN e5

(* ---------------------------------------------------------------------- *)
(* listGhaStatuses: normalization of the two upstream lists               *)
(* ---------------------------------------------------------------------- *)
\* One iteration of the loop over combined.Statuses.
CombinedEntryInvalid(s) == s.Context = NIL \/ s.State = NIL

CombinedToGha(s) == [Job |-> s.Context, State |-> s.State]

RECURSIVE CombinedLoop(_, _)
CombinedLoop(statuses, acc) ==
    IF statuses = <<>> THEN [err |-> NilErr, ghaStatuses |-> acc]
    ELSE LET s == Head(statuses) IN
         IF CombinedEntryInvalid(s)
         THEN [err |-> Errorf(ErrInvalidCombinedStatusResponse, s.Context, s.State),
               ghaStatuses |-> <<>>]
         ELSE CombinedLoop(Tail(statuses), Append(acc, CombinedToGha(s)))

CheckRunInvalid(run) == run.Name = NIL \/ run.Status = NIL

\* The branch that skips the conclusion.
CheckRunPending(run) == run.Status # checkRunCompletedStatus

\* *run.Conclusion on a nil pointer panics.
ConclusionDerefPanics(run) == run.Conclusion = NIL

ConclusionState_m(conclusion) ==
    IF conclusion = checkRunSuccessConclusion THEN successState ELSE errorState

\* The switch on *run.Conclusion.
ConclusionState(conclusion) ==
    IF conclusion \in {checkRunNeutralConclusion, checkRunSuccessConclusion}
    THEN successState
    ELSE errorState

RECURSIVE CheckRunLoop(_, _)
CheckRunLoop(runs, acc) ==
    IF runs = <<>> THEN [outcome |-> "ok", err |-> NilErr, ghaStatuses |-> acc]
    ELSE LET run == Head(runs) IN
         IF CheckRunInvalid(run)
         THEN [outcome |-> "err",
               err |-> Errorf(ErrInvalidCheckRunResponse, run.Name, run.Status),
               ghaStatuses |-> <<>>]
         ELSE IF CheckRunPending(run)
         THEN CheckRunLoop(Tail(runs),
                  Append(acc, [Job |-> run.Name, State |-> pendingState]))
         ELSE IF ConclusionDerefPanics(run)
         THEN [outcome |-> "panic", err |-> NilErr, ghaStatuses |-> <<>>]
         ELSE CheckRunLoop(Tail(runs),
                  Append(acc, [Job |-> run.Name,
                               State |-> ConclusionState(run.Conclusion)]))

(* ---------------------------------------------------------------------- *)
(* Validate: the aggregation loop and the decision                        *)
(* ---------------------------------------------------------------------- *)
NilStatus ==
    [isNil |-> TRUE, totalJobs |-> <<>>, completeJobs |-> <<>>, succeeded |-> FALSE]

\* &status{totalJobs: [], completeJobs: [], succeeded: true}, successCnt 0.
NewAcc ==
    [st |-> [isNil |-> FALSE, totalJobs |-> <<>>, completeJobs |-> <<>>,
             succeeded |-> TRUE],
     successCnt |-> 0]

LoopBody_selfByState(acc, g, self) ==
    LET withTotal == [acc EXCEPT !.st.totalJobs = Append(@, g.Job)] IN
    IF g.Job = self /\ g.State # successState
    THEN withTotal
    ELSE IF g.Job = self
    THEN [acc EXCEPT !.successCnt = @ + 1]
    ELSE IF g.State = successState
    THEN [withTotal EXCEPT !.st.completeJobs = Append(@, g.Job),
                           !.successCnt = @ + 1]
    ELSE withTotal

LoopBody_prepend(acc, g, self) ==
    IF g.Job = self
    THEN [acc EXCEPT !.successCnt = @ + 1]
    ELSE LET withTotal == [acc EXCEPT !.st.totalJobs = <<g.Job>> \o @] IN
         IF g.State = successState
         THEN [withTotal EXCEPT !.st.completeJobs = <<g.Job>> \o @,
                                !.successCnt = @ + 1]
         ELSE withTotal

\* One iteration of the loop over ghaStatuses.
LoopBody(acc, g, self) ==
    IF g.Job = self
    THEN [acc EXCEPT !.successCnt = @ + 1]
    ELSE LET withTotal == [acc EXCEPT !.st.totalJobs = Append(@, g.Job)] IN
         IF g.State = successState
         THEN [withTotal EXCEPT !.st.completeJobs = Append(@, g.Job),
                                !.successCnt = @ + 1]
         ELSE withTotal

RECURSIVE AggregateLoop(_, _, _)
AggregateLoop(jobs, self, acc) ==
    IF jobs = <<>> THEN acc
    ELSE AggregateLoop(Tail(jobs), self, LoopBody(acc, Head(jobs), self))

Decide_anySuccess(jobs, acc) ==
    IF Len(jobs) # acc.successCnt /\ acc.successCnt = 0
    THEN [acc EXCEPT !.st.succeeded = FALSE]
    ELSE acc

\* if len(ghaStatuses) != successCnt { st.succeeded = false }
Decide(jobs, acc) ==
    IF Len(jobs) # acc.successCnt
    THEN [acc EXCEPT !.st.succeeded = FALSE]
    ELSE acc

\* The part of Validate after listGhaStatuses has returned a list.
Aggregate(jobs, self) == Decide(jobs, AggregateLoop(jobs, self, NewAcc))

(* ---------------------------------------------------------------------- *)
(* State                                                                  *)
(* ---------------------------------------------------------------------- *)
VARIABLES
    sv,          \* the validator instance (nil before and after a failed construction)
    ctor,        \* the CreateValidator call: its arguments and its returned error
    pc,          \* per call: where the Validate call stands
    combined,    \* per call: what GetCombinedStatus returned
    runResult,   \* per call: what ListCheckRunsForRef returned
    ghaStatuses, \* per call: the local slice of listGhaStatuses
    successCnt,  \* per call: the local success tally
    st,          \* per call: the returned status (NilStatus for nil)
    err,         \* per call: the returned error (NilErr for nil)
    fetches,     \* per call: the client calls issued so far, in order
    inflight     \* per call: the client calls issued and not yet returned

vars == <<sv, ctor, pc, combined, runResult, ghaStatuses, successCnt, st, err,
          fetches, inflight>>

callVars == <<pc, combined, runResult, ghaStatuses, successCnt, st, err,
              fetches, inflight>>

NoResponse == [got |-> "none", err |-> NilErr, entries |-> <<>>]

\* A validator as a successful CreateValidator leaves it.
ReadyValidator ==
    [isNil |-> FALSE, repo |-> "merge-gatekeeper", owner |-> "upsidr",
     ref |-> "main", selfJobName |-> SelfJob, client |-> "client"]

NoCtor == [called |-> FALSE, c |-> NIL, opts |-> <<>>, errs |-> <<>>]

CallsInit ==
    /\ pc = [c \in Calls |-> "idle"]
    /\ combined = [c \in Calls |-> NoResponse]
    /\ runResult = [c \in Calls |-> NoResponse]
    /\ ghaStatuses = [c \in Calls |-> <<>>]
    /\ successCnt = [c \in Calls |-> 0]
    /\ st = [c \in Calls |-> NilStatus]
    /\ err = [c \in Calls |-> NilErr]
    /\ fetches = [c \in Calls |-> <<>>]
    /\ inflight = [c \in Calls |-> {}]

\* Before construction.
InitCreate ==
    /\ sv = NilValidator
    /\ ctor = NoCtor
    /\ CallsInit

\* After a successful construction.
Init ==
    /\ sv = ReadyValidator
    /\ ctor = NoCtor
    /\ CallsInit

(* ---------------------------------------------------------------------- *)
(* Actions                                                                *)
(* ---------------------------------------------------------------------- *)
CreateValidator(c, opts) ==
    /\ ~ctor.called
    /\ LET v == ApplyOptions(NewValidator(c), opts)
           errs == validateFields(v)
       IN /\ ctor' = [called |-> TRUE, c |-> c, opts |-> opts, errs |-> errs]
          /\ sv' = IF errs # <<>> THEN NilValidator ELSE v
    /\ UNCHANGED callVars

Validate_both(c) ==
    /\ ~sv.isNil
    /\ pc[c] \in {"idle", "done"}
    /\ pc' = [pc EXCEPT ![c] = "GetCombinedStatus"]
    /\ fetches' = [fetches EXCEPT ![c] = <<"GetCombinedStatus", "ListCheckRunsForRef">>]
    /\ inflight' = [inflight EXCEPT ![c] = {"GetCombinedStatus", "ListCheckRunsForRef"}]
    /\ combined' = [combined EXCEPT ![c] = NoResponse]
    /\ runResult' = [runResult EXCEPT ![c] = NoResponse]
    /\ ghaStatuses' = [ghaStatuses EXCEPT ![c] = <<>>]
    /\ successCnt' = [successCnt EXCEPT ![c] = 0]
    /\ st' = [st EXCEPT ![c] = NilStatus]
    /\ err' = [err EXCEPT ![c] = NilErr]
    /\ UNCHANGED <<sv, ctor>>

\* Validate is entered: listGhaStatuses calls client.GetCombinedStatus.
Validate(c) ==
    /\ ~sv.isNil
    /\ pc[c] \in {"idle", "done"}
    /\ pc' = [pc EXCEPT ![c] = "GetCombinedStatus"]
    /\ fetches' = [fetches EXCEPT ![c] = <<"GetCombinedStatus">>]
    /\ inflight' = [inflight EXCEPT ![c] = {"GetCombinedStatus"}]
    /\ combined' = [combined EXCEPT ![c] = NoResponse]
    /\ runResult' = [runResult EXCEPT ![c] = NoResponse]
    /\ ghaStatuses' = [ghaStatuses EXCEPT ![c] = <<>>]
    /\ successCnt' = [successCnt EXCEPT ![c] = 0]
    /\ st' = [st EXCEPT ![c] = NilStatus]
    /\ err' = [err EXCEPT ![c] = NilErr]
    /\ UNCHANGED <<sv, ctor>>

\* GetCombinedStatus returns an error: Validate returns nil and that error.
GetCombinedStatusFails(c, e) ==
    /\ pc[c] = "GetCombinedStatus"
    /\ combined' = [combined EXCEPT ![c] = [got |-> "err", err |-> e, entries |-> <<>>]]
    /\ inflight' = [inflight EXCEPT ![c] = @ \ {"GetCombinedStatus"}]
    /\ pc' = [pc EXCEPT ![c] = "done"]
    /\ err' = [err EXCEPT ![c] = e]
    /\ st' = [st EXCEPT ![c] = NilStatus]
    /\ UNCHANGED <<sv, ctor, runResult, ghaStatuses, successCnt, fetches>>

GetCombinedStatusReturns_shared(c, statuses) ==
    /\ pc[c] = "GetCombinedStatus"
    /\ combined' = [combined EXCEPT ![c] = [got |-> "ok", err |-> NilErr, entries |-> statuses]]
    /\ LET r == CombinedLoop(statuses, <<>>) IN
       IF r.err # NilErr
       THEN /\ pc' = [pc EXCEPT ![c] = "done"]
            /\ err' = [err EXCEPT ![c] = r.err]
            /\ st' = [st EXCEPT ![c] = NilStatus]
            /\ inflight' = [inflight EXCEPT ![c] = @ \ {"GetCombinedStatus"}]
            /\ UNCHANGED <<ghaStatuses, fetches>>
       ELSE /\ pc' = [pc EXCEPT ![c] = "ListCheckRunsForRef"]
            /\ ghaStatuses' = [d \in Calls |-> r.ghaStatuses]
            /\ fetches' = [fetches EXCEPT ![c] = Append(@, "ListCheckRunsForRef")]
            /\ inflight' = [inflight EXCEPT ![c] = {"ListCheckRunsForRef"}]
            /\ UNCHANGED <<err, st>>
    /\ UNCHANGED <<sv, ctor, runResult, successCnt>>

\* GetCombinedStatus returns a response: its entries are normalized, then
\* client.ListCheckRunsForRef is called.
GetCombinedStatusReturns(c, statuses) ==
    /\ pc[c] = "GetCombinedStatus"
    /\ combined' = [combined EXCEPT ![c] = [got |-> "ok", err |-> NilErr, entries |-> statuses]]
    /\ LET r == CombinedLoop(statuses, <<>>) IN
       IF r.err # NilErr
       THEN /\ pc' = [pc EXCEPT ![c] = "done"]
            /\ err' = [err EXCEPT ![c] = r.err]
            /\ st' = [st EXCEPT ![c] = NilStatus]
            /\ inflight' = [inflight EXCEPT ![c] = @ \ {"GetCombinedStatus"}]
            /\ UNCHANGED <<ghaStatuses, fetches>>
       ELSE /\ pc' = [pc EXCEPT ![c] = "ListCheckRunsForRef"]
            /\ ghaStatuses' = [ghaStatuses EXCEPT ![c] = r.ghaStatuses]
            /\ fetches' = [fetches EXCEPT ![c] = Append(@, "ListCheckRunsForRef")]
            /\ inflight' = [inflight EXCEPT ![c] = {"ListCheckRunsForRef"}]
            /\ UNCHANGED <<err, st>>
    /\ UNCHANGED <<sv, ctor, runResult, successCnt>>

\* ListCheckRunsForRef returns an error: Validate returns nil and that error.
ListCheckRunsForRefFails(c, e) ==
    /\ pc[c] = "ListCheckRunsForRef"
    /\ runResult' = [runResult EXCEPT ![c] = [got |-> "err", err |-> e, entries |-> <<>>]]
    /\ inflight' = [inflight EXCEPT ![c] = @ \ {"ListCheckRunsForRef"}]
    /\ pc' = [pc EXCEPT ![c] = "done"]
    /\ err' = [err EXCEPT ![c] = e]
    /\ st' = [st EXCEPT ![c] = NilStatus]
    /\ ghaStatuses' = [ghaStatuses EXCEPT ![c] = <<>>]
    /\ UNCHANGED <<sv, ctor, combined, successCnt, fetches>>

\* ListCheckRunsForRef returns a response: its runs are normalized and
\* appended, then Validate aggregates the list and returns.
ListCheckRunsForRefReturns(c, runs) ==
    /\ pc[c] = "ListCheckRunsForRef"
    /\ runResult' = [runResult EXCEPT ![c] = [got |-> "ok", err |-> NilErr, entries |-> runs]]
    /\ inflight' = [inflight EXCEPT ![c] = @ \ {"ListCheckRunsForRef"}]
    /\ LET r == CheckRunLoop(runs, ghaStatuses[c]) IN
       CASE r.outcome = "panic" ->
              /\ pc' = [pc EXCEPT ![c] = "panicked"]
              /\ ghaStatuses' = [ghaStatuses EXCEPT ![c] = <<>>]
              /\ UNCHANGED <<err, st, successCnt>>
         [] r.outcome = "err" ->
              /\ pc' = [pc EXCEPT ![c] = "done"]
              /\ err' = [err EXCEPT ![c] = r.err]
              /\ st' = [st EXCEPT ![c] = NilStatus]
              /\ ghaStatuses' = [ghaStatuses EXCEPT ![c] = <<>>]
              /\ UNCHANGED successCnt
         [] r.outcome = "ok" ->
              LET acc == Aggregate(r.ghaStatuses, sv.selfJobName) IN
              /\ pc' = [pc EXCEPT ![c] = "done"]
              /\ ghaStatuses' = [ghaStatuses EXCEPT ![c] = r.ghaStatuses]
              /\ successCnt' = [successCnt EXCEPT ![c] = acc.successCnt]
              /\ st' = [st EXCEPT ![c] = acc.st]
              /\ err' = [err EXCEPT ![c] = NilErr]
    /\ UNCHANGED <<sv, ctor, combined, fetches>>

(* ---------------------------------------------------------------------- *)
(* Specifications                                                         *)
(* ---------------------------------------------------------------------- *)
\* Construction of a validator from any client and any options.
NextCreate ==
    /\ ~ctor.called
    /\ \E c \in Clients, k \in 0..MaxOpts :
          \E opts \in [1..k -> Options] : CreateValidator(c, opts)

SpecCreate == InitCreate /\ [][NextCreate]_vars

\* The client answers call c's pending request with at most n entries.
Answers(c, fetch, entries, n) ==
    IF fetch \in inflight[c]
    THEN UNION {[1..k -> entries] : k \in 0..n}
    ELSE {}

Failures(c, fetch) == IF fetch \in inflight[c] THEN FetchErrors ELSE {}

\* One caller polling a constructed validator.
Next ==
    \/ Validate(1)
    \/ \E e \in Failures(1, "GetCombinedStatus") : GetCombinedStatusFails(1, e)
    \/ \E statuses \in Answers(1, "GetCombinedStatus", CombinedEntries, MaxJobs) :
          GetCombinedStatusReturns(1, statuses)
    \/ \E e \in Failures(1, "ListCheckRunsForRef") : ListCheckRunsForRefFails(1, e)
    \/ \E runs \in Answers(1, "ListCheckRunsForRef", CheckRunEntries,
                           MaxJobs - Len(combined[1].entries)) :
          ListCheckRunsForRefReturns(1, runs)

Spec == Init /\ [][Next]_vars

\* Several callers on the same validator, interleaved at the client calls.
NextConc ==
    \E c \in Calls :
        \/ Validate(c)
        \/ \E e \in Failures(c, "GetCombinedStatus") : GetCombinedStatusFails(c, e)
        \/ \E statuses \in Answers(c, "GetCombinedStatus", ConcCombinedEntries,
                                   MaxConcJobs) :
              GetCombinedStatusReturns(c, statuses)
        \/ \E e \in Failures(c, "ListCheckRunsForRef") : ListCheckRunsForRefFails(c, e)
        \/ \E runs \in Answers(c, "ListCheckRunsForRef", ConcCheckRunEntries,
                               MaxConcJobs - Len(combined[c].entries)) :
              ListCheckRunsForRefReturns(c, runs)

SpecConc == Init /\ [][NextConc]_vars

(* ---------------------------------------------------------------------- *)
(* Properties                                                             *)
(* ---------------------------------------------------------------------- *)
Finished(c) == pc[c] \in {"done", "panicked"}

Returned(c) == pc[c] = "done" /\ ~st[c].isNil

GotBoth(c) == combined[c].got = "ok" /\ runResult[c].got = "ok"

\* All entries the call fetched, in fetch order.
FetchedCount(c) == Len(combined[c].entries) + Len(runResult[c].entries)

\* Every entry carries each field the upstream contract gives it.
WellFormedResponses(c) ==
    /\ GotBoth(c)
    /\ \A i \in DOMAIN combined[c].entries :
          combined[c].entries[i].Context # NIL /\ combined[c].entries[i].State # NIL
    /\ \A j \in DOMAIN runResult[c].entries :
          LET r == runResult[c].entries[j] IN
          /\ r.Name # NIL
          /\ r.Status # NIL
          /\ r.Status = "completed" => r.Conclusion # NIL

AllNonSelfSucceeded(jobs) ==
    \A i \in DOMAIN jobs :
        jobs[i].Job # sv.selfJobName => jobs[i].State = "success"

\* C1: for well-formed upstream responses Validate returns a nil error and a
\* result whose succeeded flag is true exactly when every fetched job whose
\* name differs from the self job name has normalized state success, every
\* occurrence of a name counting on its own.
C1_DecisionRule ==
    \A c \in Calls :
        (Finished(c) /\ WellFormedResponses(c)) =>
            /\ pc[c] = "done"
            /\ err[c] = NilErr
            /\ ~st[c].isNil
            /\ Len(ghaStatuses[c]) = FetchedCount(c)
            /\ st[c].succeeded <=> AllNonSelfSucceeded(ghaStatuses[c])

\* A name reported once as success and once as pending: the result fails.
C1_Witness ==
    \E c \in Calls :
        /\ Returned(c) /\ WellFormedResponses(c)
        /\ ghaStatuses[c] = << [Job |-> "lint", State |-> "success"],
                               [Job |-> "lint", State |-> "pending"] >>
        /\ ~st[c].succeeded

Names(seq) == {seq[i] : i \in DOMAIN seq}

SelfCount(jobs) == Cardinality({i \in DOMAIN jobs : jobs[i].Job = sv.selfJobName})

\* The lists that differ from jobs only in the states of self-job entries.
SelfStateVariants(jobs) ==
    {v \in [DOMAIN jobs -> [Job : JobNames,
                            State : {"success", "error", "pending", "failure"}]] :
        \A i \in DOMAIN jobs :
            /\ v[i].Job = jobs[i].Job
            /\ jobs[i].Job # sv.selfJobName => v[i].State = jobs[i].State}

\* C2: in every result the self job appears in neither totalJobs nor
\* completeJobs, each of its occurrences counts toward the success tally
\* whatever its state, and changing only the states of the self-job entries
\* never changes succeeded.
C2_SelfJobNeverBlocks ==
    \A c \in Calls :
        Returned(c) =>
            /\ sv.selfJobName \notin Names(st[c].totalJobs)
            /\ sv.selfJobName \notin Names(st[c].completeJobs)
            /\ successCnt[c] = SelfCount(ghaStatuses[c]) + Len(st[c].completeJobs)
            /\ \A v \in SelfStateVariants(ghaStatuses[c]) :
                  Aggregate(v, sv.selfJobName).st.succeeded = st[c].succeeded

\* The self job is fetched in state error next to a successful job, and the
\* result succeeds.
C2_Witness ==
    \E c \in Calls :
        /\ Returned(c)
        /\ \E i \in DOMAIN ghaStatuses[c] :
              ghaStatuses[c][i] = [Job |-> sv.selfJobName, State |-> "error"]
        /\ \E i \in DOMAIN ghaStatuses[c] : ghaStatuses[c][i].Job # sv.selfJobName
        /\ st[c].succeeded

\* C3: every ghaStatus in the normalized list has a State among success,
\* error and pending, from whichever source it comes.
C3_ClosedStateEnum ==
    \A c \in Calls :
        \A i \in DOMAIN ghaStatuses[c] :
            ghaStatuses[c][i].State \in {"success", "error", "pending"}

\* C4: a check run with name and status is normalized to pending when its
\* status is not completed, whatever its conclusion; when completed, to
\* success for the conclusions neutral and success and to error for every
\* other conclusion string.
C4_CheckRunNormalization ==
    \A c \in Calls :
        (Returned(c) /\ GotBoth(c)) =>
            /\ Len(ghaStatuses[c]) = FetchedCount(c)
            /\ \A j \in DOMAIN runResult[c].entries :
                  LET r == runResult[c].entries[j]
                      g == ghaStatuses[c][Len(combined[c].entries) + j]
                  IN /\ g.Job = r.Name
                     /\ r.Status # "completed" => g.State = "pending"
                     /\ (r.Status = "completed" /\ r.Conclusion \in {"neutral", "success"})
                           => g.State = "success"
                     /\ (r.Status = "completed" /\ r.Conclusion \notin {"neutral", "success"})
                           => g.State = "error"

\* A run in progress that carries a conclusion, and a completed run with an
\* unrecognized conclusion, are both in one normalized list.
C4_Witness ==
    \E c \in Calls :
        /\ Returned(c)
        /\ runResult[c].entries =
              << [Name |-> "lint", Status |-> "in_progress", Conclusion |-> "success"],
                 [Name |-> "test", Status |-> "completed", Conclusion |-> "failure"] >>
        /\ ghaStatuses[c] = << [Job |-> "lint", State |-> "pending"],
                               [Job |-> "test", State |-> "error"] >>

\* C5: a combined-status entry without context or state, or a check-run
\* entry without name or status, at any position, makes Validate return a
\* nil result and the error of the corresponding kind.
C5_MalformedEntryFails ==
    \A c \in Calls :
        /\ (\E i \in DOMAIN combined[c].entries :
               \/ combined[c].entries[i].Context = NIL
               \/ combined[c].entries[i].State = NIL)
           => /\ pc[c] = "done"
              /\ st[c].isNil
              /\ err[c].wraps = ErrInvalidCombinedStatusResponse
        /\ (\E j \in DOMAIN runResult[c].entries :
               \/ runResult[c].entries[j].Name = NIL
               \/ runResult[c].entries[j].Status = NIL)
           => /\ pc[c] = "done"
              /\ st[c].isNil
              /\ err[c].wraps = ErrInvalidCheckRunResponse

Max(S) == CHOOSE x \in S : \A y \in S : y <= x

\* The value a string field has after all options are applied.
FinalValue(opts, f) ==
    LET idx == {i \in DOMAIN opts : opts[i].field = f} IN
    IF idx = {} THEN "" ELSE opts[Max(idx)].value

\* The conditions a CreateValidator call violates.
Violations(c, opts) ==
    {f \in OptionFields : FinalValue(opts, f) = ""}
        \cup (IF c = NIL THEN {"client"} ELSE {})

ViolationMessage(f) ==
    CASE f = "repo" -> "repository name is empty"
      [] f = "owner" -> "repository owner is empty"
      [] f = "ref" -> "reference of repository is empty"
      [] f = "selfJobName" -> "self job name is empty"
      [] f = "client" -> "github client is empty"

\* C6: CreateValidator returns a validator exactly when, after the options
\* are applied, repo, owner, ref and selfJobName are non-empty and the
\* client is non-nil; otherwise it returns no instance and one combined
\* error holding one violation per violated condition.
C6_ConstructionReportsAll ==
    ctor.called =>
        LET bad == Violations(ctor.c, ctor.opts) IN
        /\ ~sv.isNil <=> bad = {}
        /\ sv.isNil => sv = NilValidator
        /\ ~sv.isNil =>
              /\ sv.client = ctor.c
              /\ \A f \in OptionFields : sv[f] = FinalValue(ctor.opts, f)
        /\ Len(ctor.errs) = Cardinality(bad)
        /\ Names(ctor.errs) = {ViolationMessage(f) : f \in bad}

\* Several conditions, but not all of them, are violated at once.
C6_Witness ==
    /\ ctor.called
    /\ Cardinality(Violations(ctor.c, ctor.opts)) = 3
    /\ Len(ctor.errs) = 3
    /\ sv.isNil

NonSelf(jobs) == SelectSeq(jobs, LAMBDA g : g.Job # sv.selfJobName)

JobsOf(jobs) == [i \in DOMAIN jobs |-> jobs[i].Job]

\* The names upstream sent: combined statuses first, then check runs.
UpstreamNames(c) ==
    [i \in DOMAIN combined[c].entries |-> combined[c].entries[i].Context]
        \o [j \in DOMAIN runResult[c].entries |-> runResult[c].entries[j].Name]

\* C7: totalJobs is the sequence of names of the non-self fetched jobs in
\* fetch order, combined statuses before check runs, and completeJobs is
\* the subsequence of the occurrences in state success; the two are equal
\* when every non-self job is success.
C7_JobListsInFetchOrder ==
    \A c \in Calls :
        (Returned(c) /\ GotBoth(c)) =>
            /\ JobsOf(ghaStatuses[c]) = UpstreamNames(c)
            /\ st[c].totalJobs =
                  SelectSeq(UpstreamNames(c), LAMBDA n : n # sv.selfJobName)
            /\ st[c].completeJobs =
                  JobsOf(SelectSeq(NonSelf(ghaStatuses[c]),
                                   LAMBDA g : g.State = "success"))
            /\ AllNonSelfSucceeded(ghaStatuses[c])
                  => st[c].completeJobs = st[c].totalJobs

\* A combined status that has not succeeded comes before a successful check
\* run: both are in totalJobs in that order, only the second is complete.
C7_Witness ==
    \E c \in Calls :
        /\ Returned(c)
        /\ Len(combined[c].entries) = 1
        /\ Len(runResult[c].entries) = 1
        /\ st[c].totalJobs = <<"test", "lint">>
        /\ st[c].completeJobs = <<"lint">>

AllCombinedValid(c) ==
    \A i \in DOMAIN combined[c].entries :
        combined[c].entries[i].Context # NIL /\ combined[c].entries[i].State # NIL

\* What C8 says of the order of the fetches and of their errors.
FetchDiscipline(c) ==
    /\ Cardinality(inflight[c]) <= 1
    /\ fetches[c] \in {<<>>, <<"GetCombinedStatus">>,
                       <<"GetCombinedStatus", "ListCheckRunsForRef">>}
    /\ "ListCheckRunsForRef" \in inflight[c] => combined[c].got = "ok"
    /\ combined[c].got = "err" =>
          pc[c] = "done" /\ st[c].isNil /\ err[c] = combined[c].err
    /\ runResult[c].got = "err" =>
          pc[c] = "done" /\ st[c].isNil /\ err[c] = runResult[c].err

\* C8 as stated: every Validate call performs exactly two fetches,
\* GetCombinedStatus then ListCheckRunsForRef, never concurrently and
\* never repeated, and a fetch error ends the call with that error.
C8_ExactlyTwoFetches ==
    \A c \in Calls :
        /\ FetchDiscipline(c)
        /\ Finished(c) =>
              fetches[c] = <<"GetCombinedStatus", "ListCheckRunsForRef">>

\* C8 amended: every Validate call performs at most two fetches, one after
\* the other and never concurrently, GetCombinedStatus first; the second,
\* ListCheckRunsForRef, is issued exactly when GetCombinedStatus returned
\* without error and every entry carries context and state; no fetch is
\* repeated, and a fetch error ends the call with that same error.
C8_AtMostTwoFetches ==
    \A c \in Calls :
        /\ FetchDiscipline(c)
        /\ Finished(c) => fetches[c] # <<>>
        /\ fetches[c] = <<"GetCombinedStatus", "ListCheckRunsForRef">>
              <=> (combined[c].got = "ok" /\ AllCombinedValid(c))

\* The second fetch failed after the first one returned entries.
C8_Witness ==
    \E c \in Calls :
        /\ pc[c] = "done"
        /\ fetches[c] = <<"GetCombinedStatus", "ListCheckRunsForRef">>
        /\ combined[c].entries # <<>>
        /\ runResult[c].got = "err"
        /\ err[c] = Errorf("context canceled", NIL, NIL)

\* What Validate returns on the given responses when it runs alone.
Alone(cr, rr, self) ==
    IF cr.got = "err" THEN <<NilStatus, cr.err>>
    ELSE LET r == CombinedLoop(cr.entries, <<>>) IN
         IF r.err # NilErr THEN <<NilStatus, r.err>>
         ELSE IF rr.got = "err" THEN <<NilStatus, rr.err>>
         ELSE LET q == CheckRunLoop(rr.entries, r.ghaStatuses) IN
              IF q.outcome = "err" THEN <<NilStatus, q.err>>
              ELSE <<Aggregate(q.ghaStatuses, self).st, NilErr>>

ResultsAsAlone ==
    \A c \in Calls :
        pc[c] = "done" =>
            <<st[c], err[c]>> = Alone(combined[c], runResult[c], ReadyValidator.selfJobName)

\* C9: Validate never modifies the validator's configuration, and under
\* any interleaving of calls each call returns the result it would return
\* alone on the responses it received.
C9_CallsIndependent == [][sv' = sv]_vars /\ []ResultsAsAlone

\* One call has returned a result while another, which received a
\* different combined status, is still waiting for its check runs.
C9_Witness ==
    \E c, d \in Calls :
        /\ c # d
        /\ Returned(c)
        /\ pc[d] = "ListCheckRunsForRef"
        /\ combined[d].entries # combined[c].entries
        /\ combined[c].entries # <<>>

\* C10: when every check run carries a name and a status, Validate ends
\* with a result or an error, never in a panic.
C10_NeverPanics ==
    \A c \in Calls : pc[c] # "panicked"

====
